---- MODULE Spec2Model ----
(***************************************************************************)
(* A model of the training core of pytorch_playground:                     *)
(*   - SequenceIterator (src/rnn/rnn_classify.py), the stateful batcher    *)
(*     that reshapes a flat token sequence into lanes and walks them;      *)
(*   - Stepper, Phase and Loop (src/core/loop.py).                         *)
(* Four specifications are given: SpecIter (the iterator alone),           *)
(* SpecStepper (a Stepper driven by arbitrary step calls), SpecLoop        *)
(* (Loop.run driving a Stepper and firing lifecycle events) and SpecEma    *)
(* (the running loss of one phase fed a constant loss).                    *)
(***************************************************************************)
EXTENDS Integers, Sequences, FiniteSets, TLC

VARIABLES
    \* ---- SequenceIterator ----
    seq,        \* the constructor's `seq` argument (kept to state properties)
    it,         \* the fields of the SequenceIterator object
    result,     \* what the last call on the iterator returned or raised
    passLog,    \* the batches emitted since the traversal started
    restarted,  \* TRUE once __iter__ was called after at least one next()
    \* ---- Stepper ----
    stepper,    \* model parameters, optimizer state, schedule state
    calls,      \* bookkeeping of the Stepper's construction and step calls
    last,       \* the last step call: its arguments and what it returned
    \* ---- Loop ----
    loop,       \* the fields of the Loop object (alpha, stop)
    run,        \* the local state of the running Loop.run invocation
    phases,     \* the two Phase objects of the running invocation
    events,     \* the lifecycle events fired by the running invocation
    runs,       \* number of Loop.run invocations started so far
    \* ---- running loss of one phase under a constant loss ----
    ema         \* alpha, the loss, avg_loss before and after the last batch

iterVars    == <<seq, it, result, passLog, restarted>>
stepperVars == <<stepper, calls, last>>
loopVars    == <<loop, run, phases, events, runs>>
vars        == <<seq, it, result, passLog, restarted, stepper, calls, last,
                 loop, run, phases, events, runs, ema>>

(***************************************************************************)
(* Bounds of the model.                                                    *)
(***************************************************************************)
MaxN       == 12   \* longest token sequence handed to SequenceIterator
MaxLanes   == 3    \* largest split_size
MaxBptt    == 3    \* largest bptt

Min(a, b) == IF a < b THEN a ELSE b
Max(a, b) == IF a > b THEN a ELSE b

(***************************************************************************)
(* SequenceIterator                                                        *)
(***************************************************************************)

\* The smallest window get_sequence_length returns when it randomizes.
MinSeqLen == 5
\* Standard deviation of the normal distribution the window is drawn from.
SeqLenStd == 5

\* Python's seq[a:b] on a sequence of length n: an index below 0 counts from
\* the end, and both ends are clipped to 0..n.
PyIndex(i, n) == IF i < 0 THEN Max(i + n, 0) ELSE Min(i, n)
Slice(s, a, b) ==
    LET lo == PyIndex(a, Len(s))
        hi == PyIndex(b, Len(s))
    IN  SubSeq(s, lo + 1, hi)

\* tensor.view(rows, -1): a row-major reshape; the unspecified dimension is
\* inferred as numel / rows (numel is a multiple of rows here).
View(s, rows) ==
    LET cols == Len(s) \div rows
    IN  [i \in 1..rows |-> [j \in 1..cols |-> s[(i - 1) * cols + j]]]

\* Mutant of Transpose: the transposition is forgotten.
TransposeForgotten(m) == m

\* tensor.t() of a 2-D tensor with `rows` rows (rows >= 1): shape (cols, rows).
Transpose(m) ==
    LET cols == Len(m[1])
    IN  [j \in 1..cols |-> [i \in 1..Len(m) |-> m[i][j]]]

\* tensor.view(-1) of a contiguous 2-D tensor: its rows, one after the other.
RECURSIVE FlattenRows(_)
FlattenRows(rows) ==
    IF rows = <<>> THEN <<>> ELSE Head(rows) \o FlattenRows(Tail(rows))

\* SequenceIterator.__init__
NewSequenceIterator(s, bptt, split_size, random_length, flatten_target) ==
    LET n_batches == Len(s) \div split_size
        truncated == Slice(s, 0, n_batches * split_size)
        batches   == Transpose(View(truncated, split_size))
    IN  [bptt           |-> bptt,
         split_size     |-> split_size,
         random_length  |-> random_length,
         flatten_target |-> flatten_target,
         batches        |-> batches,
         curr_iter      |-> 0,
         curr_line      |-> 0,
         total_lines    |-> Len(batches),
         total_iters    |-> (Len(batches) \div bptt) - 1]

\* Mutant of Completed: the cursors are compared with == instead of >=.
CompletedByEquality(o) ==
    IF o.curr_line = o.total_lines - 1 THEN TRUE
    ELSE IF o.curr_iter = o.total_iters THEN TRUE
    ELSE FALSE

\* Mutant of Completed: only the iteration count ends a pass.
CompletedByCountOnly(o) == o.curr_iter >= o.total_iters

\* Mutant of Completed: only the end of the lanes ends a pass.
CompletedByLineOnly(o) == o.curr_line >= o.total_lines - 1

\* SequenceIterator.completed
Completed(o) ==
    IF o.curr_line >= o.total_lines - 1 THEN TRUE
    ELSE IF o.curr_iter >= o.total_iters THEN TRUE
    ELSE FALSE

\* int(v) for v given in halves (v2 = 2*v): truncation toward zero.
IntOfHalves(v2) == IF v2 >= 0 THEN v2 \div 2 ELSE -((-v2) \div 2)

\* SequenceIterator.get_sequence_length.  The random source is the pair
\* d = [u, g]: d.u is the outcome of np.random.random() >= 0.95, and d.g is
\* the standard normal deviate behind np.random.normal(bptt, 5), in tenths,
\* so that the sample is bptt + 5 * g / 10 (kept in halves below).
GetSequenceLength(o, d) ==
    IF o.random_length = "None" THEN o.bptt
    ELSE LET bptt2   == IF d.u THEN o.bptt ELSE 2 * o.bptt
             sample2 == bptt2 + (SeqLenStd * 2 * d.g) \div 10
         IN  Max(MinSeqLen, IntOfHalves(sample2))

\* Mutant of GetBatch: the window is not capped at the end of the lanes.
GetBatchUncapped(o, seq_len0) ==
    LET i == o.curr_line
        X == Slice(o.batches, i, i + seq_len0)
        y == Slice(o.batches, i + 1, (i + 1) + seq_len0)
    IN  [X |-> X, y |-> IF o.flatten_target THEN FlattenRows(y) ELSE y]

\* Mutant of GetBatch: the cap leaves no line for the target's lookahead.
GetBatchNoLookahead(o, seq_len0) ==
    LET i       == o.curr_line
        seq_len == Min(seq_len0, o.total_lines - i)
        X       == Slice(o.batches, i, i + seq_len)
        y       == Slice(o.batches, i + 1, (i + 1) + seq_len)
    IN  [X |-> X, y |-> IF o.flatten_target THEN FlattenRows(y) ELSE y]

\* SequenceIterator.get_batch
GetBatch(o, seq_len0) ==
    LET i       == o.curr_line
        source  == o.batches
        seq_len == Min(seq_len0, o.total_lines - 1 - i)
        X       == Slice(source, i, i + seq_len)
        y       == Slice(source, i + 1, (i + 1) + seq_len)
    IN  [X |-> X, y |-> IF o.flatten_target THEN FlattenRows(y) ELSE y]

\* The outcomes of the random source that the model enumerates.
Deviates == {-20, 5, 10}
Draws    == [u : BOOLEAN, g : Deviates]
NoDraw   == [u |-> FALSE, g |-> 0]
\* get_sequence_length draws only when random_length is not None.
DrawsOf(o) == IF o.random_length = "None" THEN {NoDraw} ELSE Draws

\* Mutant of Advance: the cursor moves by bptt instead of the window drawn.
AdvanceByBptt(o, seq_len) ==
    [o EXCEPT !.curr_line = o.curr_line + o.bptt,
              !.curr_iter = o.curr_iter + 1]

\* Mutant of Advance: the cursor moves by the rows emitted, the window after
\* capping at the end of the lanes.
AdvanceByRowsEmitted(o, seq_len) ==
    [o EXCEPT !.curr_line = o.curr_line + Min(seq_len, o.total_lines - 1 - o.curr_line),
              !.curr_iter = o.curr_iter + 1]

\* Mutant of Advance: the cursor skips the line after the window.
AdvanceSkipsOne(o, seq_len) ==
    [o EXCEPT !.curr_line = o.curr_line + seq_len + 1,
              !.curr_iter = o.curr_iter + 1]

\* SequenceIterator.next, when it returns a batch: the object afterwards.
Advance(o, seq_len) ==
    [o EXCEPT !.curr_line = o.curr_line + seq_len,
              !.curr_iter = o.curr_iter + 1]

\* Mutant of Rewind: the iteration counter is not reset.
RewindLineOnly(o) == [o EXCEPT !.curr_line = 0]

\* SequenceIterator.__iter__: the object afterwards.
Rewind(o) == [o EXCEPT !.curr_line = 0, !.curr_iter = 0]

\* SequenceIterator.next / __next__ with the random source yielding d.
IterNext(d) ==
    /\ IF Completed(it)
       THEN /\ result' = [kind |-> "StopIteration"]
            /\ UNCHANGED <<it, passLog>>
       ELSE LET seq_len == GetSequenceLength(it, d)
                batch   == GetBatch(it, seq_len)
            IN  /\ it' = Advance(it, seq_len)
                /\ result' = [kind |-> "batch", X |-> batch.X, y |-> batch.y]
                /\ passLog' = Append(passLog,
                                     [i |-> it.curr_line, d |-> d,
                                      X |-> batch.X, y |-> batch.y])
    /\ UNCHANGED <<seq, restarted>>

\* SequenceIterator.__iter__
IterIter ==
    /\ it' = Rewind(it)
    /\ result' = [kind |-> "iter"]
    /\ passLog' = <<>>
    /\ restarted' = (restarted \/ result.kind \in {"batch", "StopIteration"})
    /\ UNCHANGED seq

\* The token sequences handed to the constructor: n tokens, either all
\* different (family 0) or repeating with period 3 (family 1).
TokenSeq(n, family) ==
    [p \in 1..n |-> IF family = 0 THEN 100 + (p - 1) ELSE (p - 1) % 3]
TokenSeqs == {TokenSeq(n, f) : n \in 0..MaxN, f \in {0, 1}}
RandomLengths == {"True", "False", "None"}

IterInit ==
    /\ seq \in TokenSeqs
    /\ \E bptt \in 1..MaxBptt, split_size \in 1..MaxLanes,
          random_length \in RandomLengths, flatten_target \in BOOLEAN :
          it = NewSequenceIterator(seq, bptt, split_size, random_length,
                                   flatten_target)
    /\ result = [kind |-> "none"]
    /\ passLog = <<>>
    /\ restarted = FALSE

IterNextStep == \E d \in DrawsOf(it) : IterNext(d)

(***************************************************************************)
(* Stepper                                                                 *)
(***************************************************************************)

\* The schedule's never-stepped value of last_epoch.
NeverStepped == -1

\* The collaborators the Stepper is built from are external (a model, a loss
\* function, an optimizer, a schedule).  They are modelled by small
\* deterministic stand-ins over integers: one model parameter w, its
\* gradient, the optimizer's update count, and a schedule that counts how
\* often it was advanced.
ModelForward(w, x) == (w + x) % 5
LossFn(out, y)     == (out + 2 * y) % 5
Backward(grad, w, x, y) == grad + 1 + ((w + x + y) % 2)
LearningRate(last_epoch) == 1 + (last_epoch % 2)

\* schedule.step()
ScheduleStep(st) ==
    [st EXCEPT !.last_epoch = st.last_epoch + 1,
               !.sched_steps = st.sched_steps + 1]

\* optimizer.zero_grad()
ZeroGrad(st) == [st EXCEPT !.grad = 0]

\* optimizer.step()
OptimizerStep(st) ==
    [st EXCEPT !.w = (st.w + st.grad * LearningRate(st.last_epoch)) % 5,
               !.opt_steps = st.opt_steps + 1]

\* Stepper.__init__ over a model with parameter w and a schedule whose
\* last_epoch is last_epoch.
NewStepper(w, last_epoch) ==
    LET st == [w |-> w, grad |-> 0, opt_steps |-> 0,
               last_epoch |-> last_epoch, sched_steps |-> 0]
    IN  IF st.last_epoch = NeverStepped THEN ScheduleStep(st) ELSE st

\* Mutant of StepperStep: the schedule is advanced outside `if train`.
StepperStepAlwaysSchedules(st, x, y, train) ==
    LET out  == ModelForward(st.w, x)
        loss == LossFn(out, y)
    IN  IF train
        THEN LET zeroed  == ZeroGrad(st)
                 backed  == [zeroed EXCEPT
                               !.grad = Backward(zeroed.grad, st.w, x, y)]
                 updated == OptimizerStep(backed)
             IN  [st |-> ScheduleStep(updated), loss |-> loss]
        ELSE [st |-> ScheduleStep(st), loss |-> loss]

\* Mutant of StepperStep: the train flag is ignored and every step trains.
StepperStepAlwaysTrains(st, x, y, train) ==
    LET out     == ModelForward(st.w, x)
        loss    == LossFn(out, y)
        zeroed  == ZeroGrad(st)
        backed  == [zeroed EXCEPT !.grad = Backward(zeroed.grad, st.w, x, y)]
        updated == OptimizerStep(backed)
    IN  [st |-> updated, loss |-> loss]

\* Stepper.step: the Stepper afterwards and the loss returned.
StepperStep(st, x, y, train) ==
    LET out  == ModelForward(st.w, x)
        loss == LossFn(out, y)
    IN  IF train
        THEN LET zeroed  == ZeroGrad(st)
                 backed  == [zeroed EXCEPT
                               !.grad = Backward(zeroed.grad, st.w, x, y)]
                 updated == OptimizerStep(backed)
             IN  [st |-> ScheduleStep(updated), loss |-> loss]
        ELSE [st |-> st, loss |-> loss]

\* Bookkeeping of the calls made on the Stepper.
NoCalls(last_epoch) ==
    [init_last_epoch |-> last_epoch, train |-> 0, eval |-> 0, raised |-> 0]
Counted(c, train) ==
    IF train THEN [c EXCEPT !.train = c.train + 1]
    ELSE [c EXCEPT !.eval = c.eval + 1]
\* A step call: how it ended, its arguments, the loss it returned, and the
\* call made before it.
NoCall == [kind |-> "none", train |-> FALSE, x |-> 0, y |-> 0, loss |-> 0]
NoStep == [kind |-> "none", train |-> FALSE, x |-> 0, y |-> 0, loss |-> 0,
           prev |-> NoCall]
Called(kind, train, x, y, loss) ==
    [kind |-> kind, train |-> train, x |-> x, y |-> y, loss |-> loss,
     prev |-> [kind |-> last.kind, train |-> last.train, x |-> last.x,
               y |-> last.y, loss |-> last.loss]]

\* The schedule states a Stepper is constructed over.
InitialLastEpochs == {NeverStepped, 0, 3}
Inputs  == {0, 1}
Targets == {0, 1}
MaxSteps == 4   \* step calls made on a Stepper in SpecStepper

StepperInit ==
    /\ \E last_epoch \in InitialLastEpochs, w \in {0, 1} :
          /\ stepper = NewStepper(w, last_epoch)
          /\ calls = NoCalls(last_epoch)
    /\ last = NoStep

\* A call of Stepper.step(x, y, train) that returns.
StepCall(x, y, train) ==
    /\ calls.train + calls.eval + calls.raised < MaxSteps
    /\ LET r == StepperStep(stepper, x, y, train)
       IN  /\ stepper' = r.st
           /\ last' = Called("returned", train, x, y, r.loss)
    /\ calls' = Counted(calls, train)

\* A call of Stepper.step(x, y, train) in which the model or the loss
\* function raises: nothing after the forward pass is executed.
StepRaise(x, y, train) ==
    /\ calls.train + calls.eval + calls.raised < MaxSteps
    /\ stepper' = stepper
    /\ last' = Called("raised", train, x, y, 0)
    /\ calls' = [calls EXCEPT !.raised = calls.raised + 1]

StepperStepCall  == \E x \in Inputs, y \in Targets, t \in BOOLEAN : StepCall(x, y, t)
StepperStepRaise == \E x \in Inputs, y \in Targets, t \in BOOLEAN : StepRaise(x, y, t)

(***************************************************************************)
(* Phase and Loop                                                          *)
(***************************************************************************)
MaxEpochs  == 2   \* largest `epochs` argument of Loop.run
MaxBatches == 2   \* most batches in a data source
MaxRuns    == 2   \* Loop.run invocations on one Loop

\* Exact fractions <<numerator, denominator>> stand for the floats alpha and
\* avg_loss (rounding is not modelled).
RECURSIVE Gcd(_, _)
Gcd(a, b) == IF b = 0 THEN a ELSE Gcd(b, a % b)
Frac(n, d) == LET g == Gcd(n, d) IN IF g = 0 THEN <<0, 1>> ELSE <<n \div g, d \div g>>

\* Mutant of Smooth: the two weights are swapped.
SmoothSwapped(avg_loss, a, loss) ==
    Frac(avg_loss[1] * (a[2] - a[1]) + loss * a[1] * avg_loss[2],
         avg_loss[2] * a[2])

\* Loop.run, line 49: avg_loss*a + loss*(1 - a), loss an integer.
Smooth(avg_loss, a, loss) ==
    Frac(avg_loss[1] * a[1] + loss * (a[2] - a[1]) * avg_loss[2],
         avg_loss[2] * a[2])

\* Phase.__init__
NewPhase(name, dataset) ==
    [name |-> name, dataset |-> dataset, batch_num |-> 0, avg_loss |-> <<0, 1>>]

\* Loop.__init__
NewLoop(alpha) == [alpha |-> alpha, stop |-> FALSE]

\* A data source: a finite list of (x, y) pairs that can be traversed afresh
\* in every epoch.
DataSource(n, shift) ==
    [b \in 1..n |-> [x |-> (b + shift) % 2, y |-> b % 2]]

PhaseNames == <<"train", "valid">>

\* A lifecycle event as the callbacks receive it.  training-start and
\* training-end carry neither epoch nor phase; `batch` is the 0-based
\* position of the batch in its data source, -1 outside a batch.
Event(ev, epoch, phase, batch) ==
    [ev |-> ev, epoch |-> epoch, phase |-> phase, batch |-> batch]

\* CallbackGroup dispatching one event to its observers: the event is
\* delivered, and the Loop's stop flag is set when an observer asks for it
\* (stop_req).  run.stop_event records the event at which the flag was set.
Dispatch(e, stop_req) ==
    /\ events' = Append(events, e)
    /\ loop' = [loop EXCEPT !.stop = loop.stop \/ stop_req]

NoEvent == Event("none", -1, "-", -1)
StopEventAfter(r, e, stop_req) ==
    IF stop_req /\ ~loop.stop THEN e ELSE r.stop_event

\* The locals of Loop.run while no invocation is under way.
NoRun == [pc |-> "idle", epochs |-> 0, epoch |-> 0, phase |-> 1, pos |-> 0,
          stop_event |-> NoEvent]
NoPhases == <<NewPhase("train", <<>>), NewPhase("valid", <<>>)>>

\* Mutant of RunStart: the stop flag is cleared when a run starts.
RunStartClearsStop(train_n, valid_n, epochs, stop_req) ==
    /\ run.pc = "idle"
    /\ runs < MaxRuns
    /\ runs' = runs + 1
    /\ phases' = <<NewPhase("train", DataSource(train_n, 0)),
                   NewPhase("valid", DataSource(valid_n, 1))>>
    /\ events' = <<Event("training_start", -1, "-", -1)>>
    /\ loop' = [loop EXCEPT !.stop = stop_req]
    /\ run' = [pc |-> "epoch", epochs |-> epochs, epoch |-> 0, phase |-> 1,
               pos |-> 0,
               stop_event |-> IF stop_req
                              THEN Event("training_start", -1, "-", -1)
                              ELSE NoEvent]
    /\ UNCHANGED stepperVars

\* Loop.run, lines 29-38: the phases are built and training-start is fired.
RunStart(train_n, valid_n, epochs, stop_req) ==
    /\ run.pc = "idle"
    /\ runs < MaxRuns
    /\ runs' = runs + 1
    /\ phases' = <<NewPhase("train", DataSource(train_n, 0)),
                   NewPhase("valid", DataSource(valid_n, 1))>>
    /\ events' = <<Event("training_start", -1, "-", -1)>>
    /\ loop' = [loop EXCEPT !.stop = loop.stop \/ stop_req]
    /\ run' = [pc |-> "epoch", epochs |-> epochs, epoch |-> 0, phase |-> 1,
               pos |-> 0,
               stop_event |-> StopEventAfter(NoRun, Event("training_start", -1, "-", -1),
                                             stop_req)]
    /\ UNCHANGED stepperVars

\* Mutant of EpochHead: the stop flag is not looked at.
EpochHeadIgnoresStop ==
    /\ run.pc = "epoch"
    /\ IF run.epoch >= run.epochs
       THEN run' = [run EXCEPT !.pc = "end"]
       ELSE run' = [run EXCEPT !.pc = "phase", !.phase = 1]
    /\ UNCHANGED <<loop, phases, events, runs>>
    /\ UNCHANGED stepperVars

\* Loop.run, lines 39-41: the head of the epoch loop.
EpochHead ==
    /\ run.pc = "epoch"
    /\ IF run.epoch >= run.epochs \/ loop.stop
       THEN run' = [run EXCEPT !.pc = "end"]
       ELSE run' = [run EXCEPT !.pc = "phase", !.phase = 1]
    /\ UNCHANGED <<loop, phases, events, runs>>
    /\ UNCHANGED stepperVars

\* Loop.run, lines 42-44: epoch-start of the current phase.
EpochStart(stop_req) ==
    /\ run.pc = "phase"
    /\ LET e == Event("epoch_start", run.epoch, PhaseNames[run.phase], -1)
       IN  /\ Dispatch(e, stop_req)
           /\ run' = [run EXCEPT !.pc = "batch", !.pos = 0,
                                 !.stop_event = StopEventAfter(run, e, stop_req)]
    /\ UNCHANGED <<phases, runs>>
    /\ UNCHANGED stepperVars

\* Loop.run, lines 45-47: the data source yields its next batch.
BatchStart(stop_req) ==
    /\ run.pc = "batch"
    /\ run.pos < Len(phases[run.phase].dataset)
    /\ phases' = [phases EXCEPT ![run.phase].batch_num = @ + 1]
    /\ LET e == Event("batch_start", run.epoch, PhaseNames[run.phase], run.pos)
       IN  /\ Dispatch(e, stop_req)
           /\ run' = [run EXCEPT !.pc = "step",
                                 !.stop_event = StopEventAfter(run, e, stop_req)]
    /\ UNCHANGED runs
    /\ UNCHANGED stepperVars

\* Loop.run, lines 48-49: the step returns a loss.
LoopStep ==
    /\ run.pc = "step"
    /\ LET ph          == phases[run.phase]
           b           == ph.dataset[run.pos + 1]
           is_training == (ph.name = "train")
           r           == StepperStep(stepper, b.x, b.y, is_training)
       IN  /\ stepper' = r.st
           /\ phases' = [phases EXCEPT ![run.phase].avg_loss =
                             Smooth(ph.avg_loss, loop.alpha, r.loss)]
           /\ events' = Append(events, Event("step", run.epoch, ph.name, run.pos))
    /\ run' = [run EXCEPT !.pc = "batch_end"]
    /\ UNCHANGED <<loop, runs, calls, last>>

\* Mutant of LoopStepRaise: the exception is swallowed and the loop goes on
\* with the next batch.
LoopStepRaiseSwallowed ==
    /\ run.pc = "step"
    /\ events' = Append(events, Event("step_raised", run.epoch,
                                       PhaseNames[run.phase], run.pos))
    /\ run' = [run EXCEPT !.pc = "batch", !.pos = run.pos + 1]
    /\ UNCHANGED <<loop, phases, runs>>
    /\ UNCHANGED stepperVars

\* Mutant of LoopStepRaise: the failed step counts as a loss of 0 in the
\* phase's running loss.
LoopStepRaiseSmoothsZero ==
    /\ run.pc = "step"
    /\ events' = Append(events, Event("step_raised", run.epoch,
                                       PhaseNames[run.phase], run.pos))
    /\ phases' = [phases EXCEPT ![run.phase].avg_loss =
                      Smooth(phases[run.phase].avg_loss, loop.alpha, 0)]
    /\ run' = [run EXCEPT !.pc = "raised"]
    /\ UNCHANGED <<loop, runs>>
    /\ UNCHANGED stepperVars

\* Loop.run, line 48: the step raises, and the exception leaves Loop.run.
LoopStepRaise ==
    /\ run.pc = "step"
    /\ events' = Append(events, Event("step_raised", run.epoch,
                                       PhaseNames[run.phase], run.pos))
    /\ run' = [run EXCEPT !.pc = "raised"]
    /\ UNCHANGED <<loop, phases, runs>>
    /\ UNCHANGED stepperVars

\* Loop.run, line 50: batch-end.
BatchEnd(stop_req) ==
    /\ run.pc = "batch_end"
    /\ LET e == Event("batch_end", run.epoch, PhaseNames[run.phase], run.pos)
       IN  /\ Dispatch(e, stop_req)
           /\ run' = [run EXCEPT !.pc = "batch", !.pos = run.pos + 1,
                                 !.stop_event = StopEventAfter(run, e, stop_req)]
    /\ UNCHANGED <<phases, runs>>
    /\ UNCHANGED stepperVars

\* Mutant of EpochEnd: epoch-end is fired once per epoch, after the last
\* phase only.
EpochEndOncePerEpoch(stop_req) ==
    /\ run.pc = "batch"
    /\ run.pos >= Len(phases[run.phase].dataset)
    /\ IF run.phase < Len(PhaseNames)
       THEN /\ run' = [run EXCEPT !.pc = "phase", !.phase = run.phase + 1]
            /\ UNCHANGED <<events, loop>>
       ELSE LET e == Event("epoch_end", run.epoch, PhaseNames[run.phase], -1)
            IN  /\ Dispatch(e, stop_req)
                /\ run' = [run EXCEPT !.pc = "epoch", !.epoch = run.epoch + 1,
                              !.stop_event = StopEventAfter(run, e, stop_req)]
    /\ UNCHANGED <<phases, runs>>
    /\ UNCHANGED stepperVars

\* Mutant of EpochEnd: the phase's batch counter starts anew in every epoch.
EpochEndResetsCount(stop_req) ==
    /\ run.pc = "batch"
    /\ run.pos >= Len(phases[run.phase].dataset)
    /\ LET e == Event("epoch_end", run.epoch, PhaseNames[run.phase], -1)
       IN  /\ Dispatch(e, stop_req)
           /\ run' = IF run.phase < Len(PhaseNames)
                     THEN [run EXCEPT !.pc = "phase", !.phase = run.phase + 1,
                              !.stop_event = StopEventAfter(run, e, stop_req)]
                     ELSE [run EXCEPT !.pc = "epoch", !.epoch = run.epoch + 1,
                              !.stop_event = StopEventAfter(run, e, stop_req)]
    /\ phases' = [phases EXCEPT ![run.phase].batch_num = 0]
    /\ UNCHANGED runs
    /\ UNCHANGED stepperVars

\* Loop.run, line 51: the data source is exhausted; epoch-end, then the next
\* phase or the next epoch.
EpochEnd(stop_req) ==
    /\ run.pc = "batch"
    /\ run.pos >= Len(phases[run.phase].dataset)
    /\ LET e == Event("epoch_end", run.epoch, PhaseNames[run.phase], -1)
       IN  /\ Dispatch(e, stop_req)
           /\ run' = IF run.phase < Len(PhaseNames)
                     THEN [run EXCEPT !.pc = "phase", !.phase = run.phase + 1,
                              !.stop_event = StopEventAfter(run, e, stop_req)]
                     ELSE [run EXCEPT !.pc = "epoch", !.epoch = run.epoch + 1,
                              !.stop_event = StopEventAfter(run, e, stop_req)]
    /\ UNCHANGED <<phases, runs>>
    /\ UNCHANGED stepperVars

\* Loop.run, line 52: training-end, and the call returns.
TrainingEnd(stop_req) ==
    /\ run.pc = "end"
    /\ LET e == Event("training_end", -1, "-", -1)
       IN  /\ Dispatch(e, stop_req)
           /\ run' = [run EXCEPT !.pc = "returned",
                                 !.stop_event = StopEventAfter(run, e, stop_req)]
    /\ UNCHANGED <<phases, runs>>
    /\ UNCHANGED stepperVars

\* Loop.run has returned or raised: its frame (the phases, the callback
\* group, the loop counters) is gone; the Loop and its Stepper remain.
RunExit ==
    /\ run.pc \in {"returned", "raised"}
    /\ run' = NoRun
    /\ phases' = NoPhases
    /\ events' = <<>>
    /\ UNCHANGED <<loop, runs>>
    /\ UNCHANGED stepperVars

\* The weights alpha a Loop is constructed with (0.98 by default).
Alphas == {<<1, 2>>}

\* A Loop constructed over a Stepper that was constructed over a schedule
\* never stepped before.  calls and last belong to SpecStepper and rest here.
LoopInit ==
    /\ stepper = NewStepper(0, NeverStepped)
    /\ calls = NoCalls(NeverStepped)
    /\ last = NoStep
    /\ \E alpha \in Alphas : loop = NewLoop(alpha)
    /\ run = NoRun
    /\ phases = NoPhases
    /\ events = <<>>
    /\ runs = 0

(***************************************************************************)
(* The specifications.  Each leaves the other components at rest.          *)
(***************************************************************************)
IterIdle ==
    /\ seq = <<>>
    /\ it = NewSequenceIterator(<<>>, 1, 1, "None", FALSE)
    /\ result = [kind |-> "none"]
    /\ passLog = <<>>
    /\ restarted = FALSE

StepperIdle ==
    /\ stepper = NewStepper(0, 0)
    /\ calls = NoCalls(0)
    /\ last = NoStep

LoopIdle ==
    /\ loop = NewLoop(<<1, 2>>)
    /\ run = NoRun
    /\ phases = NoPhases
    /\ events = <<>>
    /\ runs = 0

(***************************************************************************)
(* The running loss alone: line 49 of Loop.run applied batch after batch   *)
(* to one phase whose steps all return the same loss c.                    *)
(***************************************************************************)
MaxEmaSteps   == 4     \* batches followed with exact fractions
MaxEmaBatches == 100   \* batches followed with the rounded-down bound

\* Fixed-point unit of the rounded-down bound `lo`.
FixedOne == 1000 * 1000

\* Line 49 on a lower bound of avg_loss in units of 1/FixedOne: the exact
\* result rounded down, less one unit that covers the rounding of the
\* floating-point operations.
SmoothLower(lo, a, loss) ==
    ((lo * a[1] + loss * FixedOne * (a[2] - a[1])) \div a[2]) - 1

EmaAlphas       == {<<1, 2>>, <<1, 4>>, <<3, 4>>}
DefaultAlpha    == <<98, 100>>
ConstantLosses  == {0, 1, 2}
InitialAverages == {<<0, 1>>, <<1, 1>>, <<2, 1>>, <<-1, 1>>, <<1, 2>>, <<5, 2>>}

EmaIdle ==
    ema = [mode |-> "idle", alpha |-> <<1, 2>>, c |-> 0, avg |-> <<0, 1>>,
           prev |-> <<0, 1>>, lo |-> 0, n |-> 0]

\* Either any weight, loss and starting value, followed exactly, or the
\* default weight 0.98 with loss 1.0 from Phase.__init__'s 0.0, bounded
\* from below.
EmaInit ==
    \/ \E alpha \in EmaAlphas, c \in ConstantLosses, avg \in InitialAverages :
          ema = [mode |-> "exact", alpha |-> alpha, c |-> c, avg |-> avg,
                 prev |-> avg, lo |-> 0, n |-> 0]
    \/ ema = [mode |-> "lower", alpha |-> DefaultAlpha, c |-> 1,
              avg |-> NewPhase("train", <<>>).avg_loss,
              prev |-> NewPhase("train", <<>>).avg_loss, lo |-> 0, n |-> 0]

\* One batch of the phase, followed exactly.
EmaBatchExact ==
    /\ ema.mode = "exact"
    /\ ema.n < MaxEmaSteps
    /\ ema' = [ema EXCEPT !.avg = Smooth(ema.avg, ema.alpha, ema.c),
                          !.prev = ema.avg,
                          !.n = ema.n + 1]

\* One batch of the phase, bounded from below.
EmaBatchLower ==
    /\ ema.mode = "lower"
    /\ ema.n < MaxEmaBatches
    /\ ema' = [ema EXCEPT !.lo = SmoothLower(ema.lo, ema.alpha, ema.c),
                          !.n = ema.n + 1]

InitEma == IterIdle /\ StepperIdle /\ LoopIdle /\ EmaInit
NextEma ==
    \/ EmaBatchExact /\ UNCHANGED iterVars /\ UNCHANGED stepperVars /\ UNCHANGED loopVars
    \/ EmaBatchLower /\ UNCHANGED iterVars /\ UNCHANGED stepperVars /\ UNCHANGED loopVars
SpecEma == InitEma /\ [][NextEma]_vars

InitIter == IterInit /\ StepperIdle /\ LoopIdle /\ EmaIdle
NextIter ==
    \/ IterNextStep /\ UNCHANGED stepperVars /\ UNCHANGED loopVars /\ UNCHANGED ema
    \/ IterIter /\ UNCHANGED stepperVars /\ UNCHANGED loopVars /\ UNCHANGED ema
SpecIter == InitIter /\ [][NextIter]_vars

InitStepper == IterIdle /\ StepperInit /\ LoopIdle /\ EmaIdle
NextStepper ==
    \/ StepperStepCall /\ UNCHANGED iterVars /\ UNCHANGED loopVars /\ UNCHANGED ema
    \/ StepperStepRaise /\ UNCHANGED iterVars /\ UNCHANGED loopVars /\ UNCHANGED ema
SpecStepper == InitStepper /\ [][NextStepper]_vars

InitLoop == IterIdle /\ LoopInit /\ EmaIdle
NextLoop ==
    \/ /\ \E train_n \in 0..MaxBatches, valid_n \in 0..MaxBatches,
             epochs \in 0..MaxEpochs, stop_req \in BOOLEAN :
             RunStart(train_n, valid_n, epochs, stop_req)
       /\ UNCHANGED <<iterVars, ema>>
    \/ EpochHead /\ UNCHANGED <<iterVars, ema>>
    \/ (\E stop_req \in BOOLEAN : EpochStart(stop_req)) /\ UNCHANGED <<iterVars, ema>>
    \/ (\E stop_req \in BOOLEAN : BatchStart(stop_req)) /\ UNCHANGED <<iterVars, ema>>
    \/ LoopStep /\ UNCHANGED <<iterVars, ema>>
    \/ LoopStepRaise /\ UNCHANGED <<iterVars, ema>>
    \/ (\E stop_req \in BOOLEAN : BatchEnd(stop_req)) /\ UNCHANGED <<iterVars, ema>>
    \/ (\E stop_req \in BOOLEAN : EpochEnd(stop_req)) /\ UNCHANGED <<iterVars, ema>>
    \/ (\E stop_req \in BOOLEAN : TrainingEnd(stop_req)) /\ UNCHANGED <<iterVars, ema>>
    \/ RunExit /\ UNCHANGED <<iterVars, ema>>
SpecLoop == InitLoop /\ [][NextLoop]_vars

(***************************************************************************)
(* Properties of SequenceIterator (checked under SpecIter)                 *)
(***************************************************************************)

\* Row k (0-based) of the lane matrix, of a batch's input and of its target.
MatrixRow(k)    == it.batches[k + 1]
InputRow(e, k)  == e.X[k + 1]
TargetRow(e, k) ==
    IF it.flatten_target
    THEN SubSeq(e.y, k * it.split_size + 1, (k + 1) * it.split_size)
    ELSE e.y[k + 1]
\* The number of rows of a batch's target.
TargetRows(e) ==
    IF it.flatten_target THEN Len(e.y) \div it.split_size ELSE Len(e.y)

\* C5: in every emitted batch, with cursor i and window w (the rows of the
\* input), input row k is matrix row i+k and target row k is matrix row
\* i+k+1 for every k in 0..w-1, and the target has w rows too.
C5_TargetIsInputShifted ==
    \A n \in 1..Len(passLog) :
        LET e == passLog[n]
            w == Len(e.X)
        IN  /\ e.i + w + 1 <= it.total_lines
            /\ TargetRows(e) = w
            /\ it.flatten_target => Len(e.y) = w * it.split_size
            /\ \A k \in 0..(w - 1) :
                  /\ InputRow(e, k) = MatrixRow(e.i + k)
                  /\ TargetRow(e, k) = MatrixRow(e.i + k + 1)

\* C5 witness: a second batch of at least two rows over at least two lanes.
C5_Witness ==
    /\ Len(passLog) >= 2
    /\ Len(passLog[2].X) >= 2
    /\ it.split_size >= 2
    /\ passLog[2].X # passLog[2].y

\* Token number p (0-based) of the constructor's sequence.
Token(p) == seq[p + 1]
\* The lane matrix read lane by lane (column-major).
LaneByLane ==
    LET n == Len(it.batches)
    IN  [p \in 1..(n * it.split_size) |->
            it.batches[((p - 1) % n) + 1][((p - 1) \div n) + 1]]

\* C6: the lane matrix has floor(N/L) rows of L columns, entry (r, c) is
\* token c*lines_per_lane + r, reading it lane by lane gives the first
\* lines_per_lane*L tokens in order, and no trailing token is in it.
C6_LaneMatrix ==
    LET L == it.split_size
        lines_per_lane == Len(seq) \div L
    IN  /\ it.total_lines = lines_per_lane
        /\ Len(it.batches) = lines_per_lane
        /\ \A r \in 0..(lines_per_lane - 1) :
              /\ Len(MatrixRow(r)) = L
              /\ \A c \in 0..(L - 1) :
                    MatrixRow(r)[c + 1] = Token(c * lines_per_lane + r)
        /\ LaneByLane = SubSeq(seq, 1, lines_per_lane * L)
        /\ \A p \in (lines_per_lane * L)..(Len(seq) - 1) :
              (\A q \in 0..(p - 1) : Token(q) # Token(p)) =>
                  \A r \in 0..(lines_per_lane - 1), c \in 0..(L - 1) :
                      MatrixRow(r)[c + 1] # Token(p)

\* C6 witness: several lanes of several rows, with a remainder dropped.
C6_Witness ==
    /\ it.split_size >= 2
    /\ it.total_lines >= 3
    /\ Len(seq) % it.split_size # 0
    /\ Token(0) # Token(3)
    /\ result.kind = "batch"

\* C7: a next() call made with current_line >= lines_per_lane - 1 raises
\* StopIteration and emits nothing; every batch emitted strictly increases
\* current_line.
C7_CursorIncreases ==
    [][result'.kind \in {"batch", "StopIteration"} =>
          IF it.curr_line >= it.total_lines - 1
          THEN result'.kind = "StopIteration" /\ passLog' = passLog
          ELSE result'.kind = "batch" =>
                  /\ it'.curr_line > it.curr_line
                  /\ Len(passLog') = Len(passLog) + 1]_vars

\* C7 witness: a pass of three batches ended by StopIteration at the end of
\* the lanes.
C7_Witness ==
    /\ Len(passLog) >= 3
    /\ result.kind = "StopIteration"
    /\ it.curr_line >= it.total_lines - 1
    /\ it.curr_iter < it.total_iters

\* The batches of the pass whose input window contains matrix row r.
Covering(r) ==
    {n \in 1..Len(passLog) :
        passLog[n].i <= r /\ r < passLog[n].i + Len(passLog[n].X)}

\* C8 as stated: when a pass is exhausted, every row 0..lines_per_lane-2 is
\* in the input window of exactly one emitted batch.
C8_EveryRowOnce ==
    result.kind = "StopIteration" =>
        \A r \in 0..(it.total_lines - 2) : Cardinality(Covering(r)) = 1

\* C8 as amended: at any point of a pass every row 0..lines_per_lane-2 is in
\* the input window of exactly one emitted batch if it lies before
\* current_line, and of none otherwise.
C8_RowsBeforeCursorOnce ==
    \A r \in 0..(it.total_lines - 2) :
        Cardinality(Covering(r)) = IF r < it.curr_line THEN 1 ELSE 0

\* C8 witness: a pass ended by the iteration count with rows left unread.
C8_Witness ==
    /\ result.kind = "StopIteration"
    /\ Len(passLog) >= 2
    /\ it.curr_line < it.total_lines - 1
    /\ it.curr_iter >= it.total_iters

\* A first traversal of a newly constructed iterator fed the draws ds: the
\* batches it emits and the iterator afterwards.
RECURSIVE FirstTraversal(_, _, _)
FirstTraversal(o, ds, log) ==
    IF ds = <<>> \/ Completed(o) THEN [o |-> o, log |-> log]
    ELSE LET seq_len == GetSequenceLength(o, Head(ds))
             batch   == GetBatch(o, seq_len)
         IN  FirstTraversal(Advance(o, seq_len), Tail(ds),
                            Append(log, [i |-> o.curr_line, d |-> Head(ds),
                                         X |-> batch.X, y |-> batch.y]))

\* C9: __iter__ resets both cursors and keeps the lane matrix, and the
\* traversal under way, fed its draws, has emitted what a first traversal of
\* a newly constructed iterator emits and is exhausted exactly when that
\* one is.
C9_RestartReproduces ==
    LET fresh == NewSequenceIterator(seq, it.bptt, it.split_size,
                                     it.random_length, it.flatten_target)
        first == FirstTraversal(fresh, [n \in 1..Len(passLog) |-> passLog[n].d],
                                <<>>)
    IN  /\ it.batches = fresh.batches
        /\ result.kind = "iter" => it.curr_line = 0 /\ it.curr_iter = 0
        /\ first.log = passLog
        /\ first.o.curr_line = it.curr_line
        /\ first.o.curr_iter = it.curr_iter
        /\ Completed(first.o) = Completed(it)

\* C9 witness: a traversal restarted after next() calls has emitted two
\* batches and is exhausted.
C9_Witness ==
    /\ restarted
    /\ Len(passLog) >= 2
    /\ result.kind = "StopIteration"

\* C10: an iterator built from fewer tokens than lanes has no lines, never
\* emits a batch, and answers next() with StopIteration.
C10_ShortSequence ==
    Len(seq) < it.split_size =>
        /\ it.total_lines = 0
        /\ it.batches = <<>>
        /\ Completed(it)
        /\ passLog = <<>>
        /\ result.kind \in {"none", "iter", "StopIteration"}

\* C10 witness: next() was called on an iterator built from one token and
\* several lanes.
C10_Witness ==
    /\ Len(seq) = 1
    /\ it.split_size >= 2
    /\ result.kind = "StopIteration"
    /\ it.curr_line = 0

(***************************************************************************)
(* Properties of Stepper (checked under SpecStepper)                       *)
(***************************************************************************)

\* C3: the schedule was advanced by the Stepper once at construction if it
\* had never been stepped (last_epoch = -1), and once per step call with
\* train = TRUE that returned; evaluation steps (and calls that raised in the
\* forward pass) add nothing.
C3_ScheduleAdvances ==
    LET at_construction ==
            IF calls.init_last_epoch = NeverStepped THEN 1 ELSE 0
    IN  /\ stepper.sched_steps = at_construction + calls.train
        /\ stepper.last_epoch = calls.init_last_epoch + stepper.sched_steps

\* C3 witness: a never-stepped schedule, then training and evaluation steps.
C3_Witness ==
    /\ calls.init_last_epoch = NeverStepped
    /\ calls.train >= 2
    /\ calls.eval >= 2
    /\ stepper.sched_steps = 3

\* C4: a step call with train = FALSE leaves the model parameter, the
\* optimizer state and the schedule state as they were, and two consecutive
\* evaluation steps on the same batch return the same loss.
C4_EvalStepIsPure ==
    [][(calls'.eval = calls.eval + 1) =>
          /\ stepper' = stepper
          /\ (/\ last'.prev.kind = "returned"
              /\ ~last'.prev.train
              /\ last'.prev.x = last'.x
              /\ last'.prev.y = last'.y) => last'.loss = last'.prev.loss]_vars

\* C4 witness: after a training step, two evaluation steps in a row on one
\* batch.
C4_Witness ==
    /\ calls.train >= 1
    /\ last.kind = "returned" /\ ~last.train
    /\ last.prev.kind = "returned" /\ ~last.prev.train
    /\ last.prev.x = last.x /\ last.prev.y = last.y
    /\ stepper.opt_steps >= 1

(***************************************************************************)
(* Properties of Loop.run (checked under SpecLoop)                         *)
(***************************************************************************)

IsPrefix(a, b) == Len(a) <= Len(b) /\ SubSeq(b, 1, Len(a)) = a

\* The events of the batches 0..n-1 of phase `name` in epoch e.
RECURSIVE BatchesEvents(_, _, _)
BatchesEvents(e, name, n) ==
    IF n = 0 THEN <<>>
    ELSE BatchesEvents(e, name, n - 1)
         \o <<Event("batch_start", e, name, n - 1),
              Event("step", e, name, n - 1),
              Event("batch_end", e, name, n - 1)>>
\* The events of one phase of epoch e.
PhaseEvents(e, p) ==
    <<Event("epoch_start", e, PhaseNames[p], -1)>>
    \o BatchesEvents(e, PhaseNames[p], Len(phases[p].dataset))
    \o <<Event("epoch_end", e, PhaseNames[p], -1)>>
\* The events of the epochs 0..n-1: train phase, then valid phase.
RECURSIVE EpochsEvents(_)
EpochsEvents(n) ==
    IF n = 0 THEN <<>>
    ELSE EpochsEvents(n - 1) \o PhaseEvents(n - 1, 1) \o PhaseEvents(n - 1, 2)
\* The events of a run that executes n epochs.
RunEvents(n) ==
    <<Event("training_start", -1, "-", -1)>> \o EpochsEvents(n)
    \o <<Event("training_end", -1, "-", -1)>>

NoStepRaised == \A n \in 1..Len(events) : events[n].ev # "step_raised"

\* C1: in a run in which no step fails, the events fired so far are the
\* beginning of: training-start; per epoch in increasing order and per phase
\* train then valid, epoch-start, then batch-start, step, batch-end for each
\* batch in turn, then epoch-end; and when the run returns they are exactly
\* that sequence for the epochs executed, followed by one training-end.
C1_LifecycleOrder ==
    (run.pc # "idle" /\ NoStepRaised) =>
        IF run.pc = "returned"
        THEN \E n \in 0..run.epochs : events = RunEvents(n)
        ELSE LET all == RunEvents(run.epochs)
             IN  IsPrefix(events, SubSeq(all, 1, Len(all) - 1))

\* C1 witness: a run of two epochs with two batches in each phase returned.
C1_Witness ==
    /\ run.pc = "returned"
    /\ run.epochs = 2
    /\ Len(phases[1].dataset) = 2
    /\ Len(phases[2].dataset) = 2
    /\ events = RunEvents(2)

\* C2: once a callback has set the stop flag at an event of epoch e, the run
\* goes on with the events of epoch e, fires no event of a later epoch, and
\* when it returns it has fired exactly the events of epochs 0..e in full,
\* followed by training-end.
C2_StopCompletesEpoch ==
    (run.stop_event.epoch >= 0 /\ NoStepRaised) =>
        LET e   == run.stop_event.epoch
            all == RunEvents(e + 1)
        IN  /\ loop.stop
            /\ \A n \in 1..Len(events) : events[n].epoch <= e
            /\ IsPrefix(events, all)
            /\ run.pc = "returned" => events = all
            /\ run.pc # "returned" => Len(events) < Len(all)

\* C2 witness: stop was requested at a batch-start of the train phase of
\* epoch 0 of a two-epoch run, and the run has returned after the valid
\* phase of epoch 0.
C2_Witness ==
    /\ run.pc = "returned"
    /\ run.epochs = 2
    /\ run.stop_event.ev = "batch_start"
    /\ run.stop_event.phase = "train"
    /\ run.stop_event.epoch = 0
    /\ Len(phases[2].dataset) = 2
    /\ events = RunEvents(1)

\* The positions in the event log at which a step raised.
RaisedAt == {n \in 1..Len(events) : events[n].ev = "step_raised"}

\* C11: when a step raises, Loop.run is left by that exception: the raising
\* step is the last thing the run did (no retry of the batch, no later
\* batch, no later step, no later event), and the run ends as raised.
C11_StepFailureIsFatal ==
    /\ \A n \in RaisedAt : n = Len(events) /\ run.pc = "raised"
    /\ run.pc = "raised" => RaisedAt = {Len(events)}

\* C11 witness: the first of two train batches of the second epoch raised.
C11_Witness ==
    /\ run.pc = "raised"
    /\ events[Len(events)] = Event("step_raised", 1, "train", 0)
    /\ Len(phases[1].dataset) = 2
    /\ Len(phases[2].dataset) >= 1


\* The number of events `ev` of phase `name` in the log of the run.
Fired(ev, name) ==
    Cardinality({n \in 1..Len(events) :
                    events[n].ev = ev /\ events[n].phase = name})

\* C17: a run starts both phases with batch_num 0 and avg_loss 0.0 whatever
\* earlier runs did; at every point of the run a phase's batch_num is the
\* number of batch-starts of that phase fired so far in the run, the one
\* just fired included, across epochs and whatever the other phase did.
C17_BatchNumCountsBatches ==
    /\ (run.pc = "epoch" /\ Len(events) = 1) =>
          \A p \in 1..Len(PhaseNames) :
              phases[p].batch_num = 0 /\ phases[p].avg_loss = <<0, 1>>
    /\ run.pc # "idle" =>
          \A p \in 1..Len(PhaseNames) :
              phases[p].batch_num = Fired("batch_start", PhaseNames[p])

\* C17 witness: in a second run on the same Loop, batch-start has just fired
\* for the first valid batch of the second epoch: the third valid batch of
\* the run, after four train batches.
C17_Witness ==
    /\ runs = 2
    /\ run.pc = "step"
    /\ events[Len(events)] = Event("batch_start", 1, "valid", 0)
    /\ phases[2].batch_num = 3
    /\ phases[1].batch_num = 4

\* The log of a run that executed no epoch.
NoEpochEvents ==
    {<<Event("training_start", -1, "-", -1)>>,
     <<Event("training_start", -1, "-", -1), Event("training_end", -1, "-", -1)>>}

\* C18: no step of Loop.run clears the stop flag, and a run started with the
\* flag already set (no callback of the run set it) fires training-start and
\* training-end and nothing else.
C18_StopIsNeverCleared ==
    /\ [][loop.stop => loop'.stop]_vars
    /\ []((run.pc # "idle" /\ loop.stop /\ run.stop_event = NoEvent) =>
             /\ runs >= 2
             /\ run.pc \in {"epoch", "end", "returned"}
             /\ events \in NoEpochEvents
             /\ run.pc = "returned" => Len(events) = 2)

\* C18 witness: a second run of two epochs over non-empty data has returned;
\* the flag was set before it started, and it fired two events.
C18_Witness ==
    /\ runs = 2
    /\ run.pc = "returned"
    /\ loop.stop
    /\ run.stop_event = NoEvent
    /\ run.epochs = 2
    /\ Len(phases[1].dataset) = 2
    /\ Len(phases[2].dataset) = 2
    /\ Len(events) = 2

\* C19: a run that a failing step ended counts the failed batch in the
\* phase's batch_num and fired batch-start for it, but the step that raised
\* left the phase's avg_loss alone, and the log holds no batch-end of that
\* batch, no epoch-end of that phase in that epoch and no training-end; the
\* run fires nothing afterwards.
C19_FailedBatchState ==
    /\ [][run'.pc = "raised" /\ run.pc # "raised" =>
              /\ phases'[run.phase].avg_loss = phases[run.phase].avg_loss
              /\ phases'[run.phase].batch_num = phases[run.phase].batch_num
              /\ events[Len(events)] =
                     Event("batch_start", run.epoch, PhaseNames[run.phase], run.pos)]_vars
    /\ [][run.pc = "raised" => events' = <<>> /\ run'.pc = "idle"]_vars
    /\ [](run.pc = "raised" =>
             LET name == PhaseNames[run.phase]
             IN  /\ phases[run.phase].batch_num = Fired("batch_start", name)
                 /\ Fired("batch_start", name) = Fired("step", name) + 1
                 /\ Fired("batch_end", name) = Fired("step", name)
                 /\ \A n \in 1..Len(events) :
                        /\ events[n].ev # "training_end"
                        /\ ~(events[n] = Event("batch_end", run.epoch, name, run.pos))
                        /\ ~(events[n] = Event("epoch_end", run.epoch, name, -1)))

\* C19 witness: the second valid batch of the first epoch failed after one
\* valid batch and two train batches had succeeded.
C19_Witness ==
    /\ run.pc = "raised"
    /\ events[Len(events)] = Event("step_raised", 0, "valid", 1)
    /\ phases[2].batch_num = 2
    /\ phases[1].batch_num = 2
    /\ Fired("batch_end", "valid") = 1

(***************************************************************************)
(* Properties of the running loss (checked under SpecEma)                  *)
(***************************************************************************)
Abs(v) == IF v < 0 THEN -v ELSE v
\* |f - c| of a fraction f and an integer c, as a fraction over f[2].
Distance(f, c) == Abs(f[1] - c * f[2])

\* The update of line 49, cross-multiplied:
\* avg = prev*alpha + c*(1 - alpha).
EmaRule ==
    ema.avg[1] * ema.prev[2] * ema.alpha[2] =
        (ema.prev[1] * ema.alpha[1]
         + ema.c * (ema.alpha[2] - ema.alpha[1]) * ema.prev[2]) * ema.avg[2]

\* |avg - c| < |prev - c|
EmaCloser ==
    Distance(ema.avg, ema.c) * ema.prev[2] < Distance(ema.prev, ema.c) * ema.avg[2]

C12_WitnessDefault ==
    /\ ema.mode = "lower"
    /\ ema.n = 100
    /\ ema.lo * 100 > 85 * FixedOne

(***************************************************************************)
(* Further properties of the SequenceIterator (checked under SpecIter)     *)
(***************************************************************************)
\* The window of an emitted batch: the number of rows of its input.
Window(b) == Len(b.X)

\* C13: with random_length = False every emitted batch has the window
\* min(bptt, total_lines - 1 - curr_line), whatever the random source yields.
C13_FalseDisablesRandomLength ==
    it.random_length = "False" =>
        \A k \in 1..Len(passLog) :
            Window(passLog[k]) = Min(it.bptt, it.total_lines - 1 - passLog[k].i)

\* The cursor after the k-th batch of the pass: where the next batch
\* started or, after the latest batch, where the cursor is.
CursorAfter(k) ==
    IF k < Len(passLog) THEN passLog[k + 1].i ELSE it.curr_line

\* The window get_sequence_length returned for the k-th batch of the pass.
Drawn(k) == GetSequenceLength(it, passLog[k].d)

\* C14 as stated: each emitted batch moves current_line by the number of
\* rows of its input and current_iteration by one, so that current_line
\* never exceeds lines_per_lane - 1.
C14_CursorAdvancesByRows ==
    /\ it.curr_iter = Len(passLog)
    /\ \A k \in 1..Len(passLog) :
          CursorAfter(k) = passLog[k].i + Window(passLog[k])
    /\ Len(passLog) >= 1 => it.curr_line <= it.total_lines - 1

\* C14 as amended: each emitted batch moves current_line by the window that
\* get_sequence_length returned, before capping, and current_iteration by
\* one.  The rows emitted are that window capped at the rows left, so the
\* two differ exactly when the batch was capped; current_line is below
\* lines_per_lane - 1 whenever a batch is emitted, and exceeds it only
\* after a capped batch, which is the last of its pass.
C14_CursorAdvancesByDrawn ==
    /\ it.curr_iter = Len(passLog)
    /\ \A k \in 1..Len(passLog) :
          /\ passLog[k].i < it.total_lines - 1
          /\ CursorAfter(k) = passLog[k].i + Drawn(k)
          /\ Window(passLog[k]) = Min(Drawn(k), it.total_lines - 1 - passLog[k].i)
          /\ Window(passLog[k]) < Drawn(k) => k = Len(passLog) /\ Completed(it)
    /\ it.curr_line > it.total_lines - 1 /\ Len(passLog) >= 1 =>
          Window(passLog[Len(passLog)]) < Drawn(Len(passLog))

\* C14 witness: the second batch of a pass was capped and left the cursor
\* past the last line.
C14_Witness ==
    /\ Len(passLog) = 2
    /\ Window(passLog[2]) < Drawn(2)
    /\ it.curr_line > it.total_lines - 1
    /\ it.curr_iter = 2

\* C15: the window w of every emitted batch, whatever window was drawn, is
\* at least 1 and at most lines_per_lane - 1 - current_line; the last row
\* the target reads is at most row lines_per_lane - 1, and input and target
\* both have exactly w rows.
C15_WindowWithinLanes ==
    \A k \in 1..Len(passLog) :
        LET b == passLog[k]
            w == Window(b)
        IN  /\ 1 <= w
            /\ w <= it.total_lines - 1 - b.i
            /\ (b.i + 1) + w - 1 <= it.total_lines - 1
            /\ TargetRows(b) = w
            /\ Len(b.y) = IF it.flatten_target THEN w * it.split_size ELSE w
            /\ b.X = [r \in 1..w |-> it.batches[b.i + r]]

\* C15 witness: a drawn window of 8 lines was cut to the 3 lines left, and
\* the target ends with the last line of the lanes.
C15_Witness ==
    /\ Len(passLog) = 2
    /\ Drawn(2) = 8
    /\ Window(passLog[2]) = 3
    /\ passLog[2].i + Window(passLog[2]) = it.total_lines - 1
    /\ ~it.flatten_target
    /\ passLog[2].y[3] = it.batches[it.total_lines]

\* The most batches a pass may emit: max(0, lines_per_lane // base_window - 1).
MostBatches == Max(0, (Len(it.batches) \div it.bptt) - 1)

\* C16: a pass never emits more than max(0, lines_per_lane // base_window - 1)
\* batches, whatever windows are drawn, so that it ends after at most that
\* many; a lane matrix of fewer than 2*base_window rows yields none.
C16_BatchesPerPass ==
    /\ Len(passLog) <= MostBatches
    /\ it.curr_iter <= MostBatches
    /\ Len(it.batches) < 2 * it.bptt =>
          passLog = <<>> /\ result.kind \in {"none", "iter", "StopIteration"}

\* C16 witness: a pass of fixed windows ended by the count of batches, with
\* lines left unread.
C16_Witness ==
    /\ result.kind = "StopIteration"
    /\ Len(passLog) = MostBatches
    /\ MostBatches = 2
    /\ it.curr_line < it.total_lines - 1

\* C16 witness of randomized windows: a pass of as many batches as allowed.
C16_WitnessRandom ==
    /\ result.kind = "StopIteration"
    /\ it.random_length = "True"
    /\ Len(passLog) = MostBatches
    /\ MostBatches = 3

\* C16 witness of the short case: next() on a matrix of 5 lines with bptt 3.
C16_WitnessShort ==
    /\ result.kind = "StopIteration"
    /\ Len(it.batches) = 5
    /\ it.bptt = 3
    /\ passLog = <<>>

\* The input windows of the pass follow one another: the first starts at
\* row 0 and each later one at the row after the previous one's last row.
Contiguous ==
    /\ Len(passLog) >= 1 => passLog[1].i = 0
    /\ \A k \in 2..Len(passLog) :
          passLog[k].i = passLog[k - 1].i + Window(passLog[k - 1])

\* C20 as stated: the input windows of a pass are contiguous and disjoint,
\* no lane-matrix row is in the input of more than one batch, and no row
\* before the cursor is skipped.
C20_NoRowBeforeCursorSkipped ==
    /\ Contiguous
    /\ \A r \in 0..(it.total_lines - 1) :
          /\ Cardinality(Covering(r)) <= 1
          /\ r < it.curr_line => Covering(r) # {}

\* C20 as amended: the same, for the rows 0..lines_per_lane-2.  The last
\* row is in no input; it lies before the cursor exactly when the cursor
\* has passed lines_per_lane - 1, which the capped last batch of a pass
\* causes.
C20_NoInputRowBeforeCursorSkipped ==
    /\ Contiguous
    /\ \A r \in 0..(it.total_lines - 2) :
          /\ Cardinality(Covering(r)) <= 1
          /\ r < it.curr_line => Covering(r) # {}
    /\ it.total_lines >= 1 =>
          /\ Covering(it.total_lines - 1) = {}
          /\ it.total_lines - 1 < it.curr_line =>
                /\ Len(passLog) >= 1
                /\ Window(passLog[Len(passLog)]) < Drawn(Len(passLog))

\* C20 witness: three batches of randomized windows, the third starting
\* right after the second and capped at the end of the lanes.
C20_Witness ==
    /\ Len(passLog) = 3
    /\ passLog[2].i = Window(passLog[1])
    /\ passLog[3].i = passLog[2].i + Window(passLog[2])
    /\ passLog[3].i + Window(passLog[3]) = it.total_lines - 1
    /\ it.curr_line > it.total_lines - 1

====
